---- MODULE Spec2Model ----
(***************************************************************************)
(* Behavioural governance control loop of cognitive-os: the state manager  *)
(* (state.json, state-history.json), the intervention engine               *)
(* (checkIntervention, executeIntervention, checkUnlockCondition, the      *)
(* intervention log) and the registries they read (errors.json,            *)
(* unresolved.json).                                                       *)
(*                                                                         *)
(* Time is counted in whole days; a timestamp is the day it was taken.     *)
(* JavaScript null is the value Null for text fields and NullTime for      *)
(* timestamps.  The Chinese message texts of the source are written in     *)
(* ASCII.                                                                  *)
(***************************************************************************)
EXTENDS Integers, Sequences, FiniteSets, TLC

VARIABLES
    now,          \* the wall clock, in days
    stateFile,    \* memory/state.json
    history,      \* memory/state-history.json
    log,          \* memory/interventions.json
    errors,       \* memory/errors.json, the mistake registry
    unresolved,   \* memory/unresolved.json, the unresolved-item registry
    timelines,    \* memory/timeline/, the daily records, one file per date
    logWritable,  \* whether interventions.json can be read and written
    procs,        \* the call in flight in each of two processes or async calls
    indexData,    \* MemoryEngine.indexData, the vector index in memory
    ret           \* the last call: its name, its arguments and what it returned

vars == <<now, stateFile, history, log, errors, unresolved, timelines, logWritable, procs,
          indexData, ret>>

(***************************************************************************)
(* Bounds of the model.                                                    *)
(***************************************************************************)
MaxTime == 33          \* the clock stops here
MaxHist == 3           \* entries the history file may hold
MaxLog == 2            \* entries the intervention log may hold
MaxEvents == 2         \* events in one executeIntervention call
MaxLevelArg == 5       \* level arguments range over 0..MaxLevelArg
MaxUnresolved == 6     \* entries of the unresolved registry
MaxErrors == 2         \* entries of the mistake registry
MaxOccurrences == 4    \* occurrences of a mistake-registry entry
MaxStreak == 3         \* streaks and day counters of a metrics input
MaxWindow == 7         \* daily records in the timeline directory
MaxMistakes == 4       \* mistakes recorded with addMistake
MaxThreads == 3        \* threads opened with addUnfinished
MaxIndex == 3          \* entries of the memory index

Null == "<null>"
NullTime == 0

(***************************************************************************)
(* State manager.                                                          *)
(***************************************************************************)
HistoryDays == 30

DEFAULT_STATE ==
    [focus_mode |-> "neutral",
     expansion_lock |-> FALSE,
     active_constraint |-> Null,
     intervention_level |-> 1,
     current_goal |-> Null,
     streak_days |-> 0,
     last_update |-> NullTime,
     created_at |-> NullTime]

FocusModes == {"deep", "scattered", "neutral"}

\* The disk as the state manager sees it.
Store(sf, h) == [stateFile |-> sf, history |-> h]

\* loadState without its catch: what is in the file is what it returns.
loadStateUnguarded(sf) == IF sf.status = "absent" THEN DEFAULT_STATE ELSE sf.data

\* The file is absent, or it is there and JSON.parse returns its data (status
\* "ok") or throws (status "corrupt"), which loadState catches.
loadState(sf) == IF sf.status = "ok" THEN sf.data ELSE DEFAULT_STATE

getState(sf) == loadState(sf)

\* saveState that writes the object as it is given.
saveStateUnstamped(state, t) == [status |-> "ok", data |-> state]

\* saveState stamps last_update on the object it is given and writes it.
saveState(state, t) == [status |-> "ok", data |-> [state EXCEPT !.last_update = t]]

loadHistory(h) == h

\* saveToHistory without the 30-day filter.
saveToHistoryUnfiltered(h, state, t) ==
    Append(loadHistory(h), [timestamp |-> t, state |-> state])

saveToHistory(h, state, t) ==
    LET pushed == Append(loadHistory(h), [timestamp |-> t, state |-> state])
        thirtyDaysAgo == t - HistoryDays
    IN SelectSeq(pushed, LAMBDA e : e.timestamp > thirtyDaysAgo)

\* Object.assign(state, updates)
Assign(state, updates) ==
    [f \in DOMAIN state \cup DOMAIN updates |->
        IF f \in DOMAIN updates THEN updates[f] ELSE state[f]]

updateState(st, updates, t) ==
    LET assigned == Assign(loadState(st.stateFile), updates)
        created == IF assigned.created_at = NullTime
                   THEN [assigned EXCEPT !.created_at = t]
                   ELSE assigned
        saved == saveState(created, t)
    IN Store(saved, saveToHistory(st.history, saved.data, t))

InvalidFocusMode(mode) == mode \notin FocusModes

\* The check of the lower end only.
InvalidLevelBelow(level) == level < 1

InvalidLevel(level) == level < 1 \/ level > 3

\* setInterventionLevel that validates and then writes nothing.
setInterventionLevelUnwritten(st, level, t) == st

setInterventionLevel(st, level, t) == updateState(st, [intervention_level |-> level], t)

\* lockExpansion that writes the lock as released.
lockExpansionReleasing(st, constraint, t) ==
    updateState(st, [expansion_lock |-> FALSE, active_constraint |-> constraint], t)

lockExpansion(st, constraint, t) ==
    updateState(st, [expansion_lock |-> TRUE, active_constraint |-> constraint], t)

unlockExpansion(st, t) ==
    updateState(st, [expansion_lock |-> FALSE, active_constraint |-> Null], t)

HighLevelReason == "high intervention level: forced focus"

\* canExpand that looks at the lock only.
canExpandLockOnly(sf) ==
    LET state == loadState(sf)
    IN IF state.expansion_lock
       THEN [allowed |-> FALSE, reason |-> state.active_constraint,
             intervention_level |-> state.intervention_level]
       ELSE [allowed |-> TRUE, reason |-> Null,
             intervention_level |-> state.intervention_level]

canExpand(sf) ==
    LET state == loadState(sf)
    IN IF state.expansion_lock
       THEN [allowed |-> FALSE, reason |-> state.active_constraint,
             intervention_level |-> state.intervention_level]
       ELSE IF state.intervention_level >= 3
       THEN [allowed |-> FALSE, reason |-> HighLevelReason,
             intervention_level |-> state.intervention_level]
       ELSE [allowed |-> TRUE, reason |-> Null,
             intervention_level |-> state.intervention_level]

\* resetState that saves the defaults as they are.
resetStateUnstamped(st, t) == Store(saveState(DEFAULT_STATE, t), st.history)

resetState(st, t) ==
    LET freshState == [DEFAULT_STATE EXCEPT !.created_at = t]
    IN Store(saveState(freshState, t), st.history)

(***************************************************************************)
(* Intervention engine.                                                    *)
(***************************************************************************)
\* The rule table with the expansion_limit rule at level 1.
INTERVENTION_RULES_EXPANSION_LOW ==
    [expansion_limit |->
        [threshold |-> 7, action |-> "lock_expansion", level |-> 1,
         message |-> "7 consecutive days of new projects, expansion locked"],
     error_recurrence |->
        [threshold |-> 3, action |-> "force_counter_strategy", level |-> 2,
         message |-> "the same error 3 times, a counter strategy must be written"],
     unfinished_limit |->
        [threshold |-> 5, action |-> "lock_expansion", level |-> 3,
         message |-> "more than 5 unfinished items, no new items"],
     high_level_duration |->
        [threshold |-> 3, action |-> "degrade_level", level |-> 1,
         message |-> "high intervention level for 3 days, trying to degrade"],
     scattered_streak |->
        [threshold |-> 3, action |-> "warn_scattered", level |-> 1,
         message |-> "3 consecutive scattered days, adjust"]]

INTERVENTION_RULES ==
    [expansion_limit |->
        [threshold |-> 7, action |-> "lock_expansion", level |-> 2,
         message |-> "7 consecutive days of new projects, expansion locked"],
     error_recurrence |->
        [threshold |-> 3, action |-> "force_counter_strategy", level |-> 2,
         message |-> "the same error 3 times, a counter strategy must be written"],
     unfinished_limit |->
        [threshold |-> 5, action |-> "lock_expansion", level |-> 3,
         message |-> "more than 5 unfinished items, no new items"],
     high_level_duration |->
        [threshold |-> 3, action |-> "degrade_level", level |-> 1,
         message |-> "high intervention level for 3 days, trying to degrade"],
     scattered_streak |->
        [threshold |-> 3, action |-> "warn_scattered", level |-> 1,
         message |-> "3 consecutive scattered days, adjust"]]

loadErrors(file) == file

loadUnresolved(file) == file

\* logIntervention that pushes the entry and never writes the file.
logInterventionUnwritten(l, writable, intervention, t) == [threw |-> FALSE, log |-> l]

\* logIntervention without its catch: a failure to read or write the file
\* is thrown to the caller.
logInterventionUncaught(l, writable, intervention, t) ==
    [threw |-> ~writable,
     log |-> IF writable THEN Append(l, Assign(intervention, [timestamp |-> t])) ELSE l]

\* logIntervention that starts from an empty list every time.
logInterventionLatestOnly(l, writable, intervention, t) ==
    [threw |-> FALSE,
     log |-> IF writable THEN <<Assign(intervention, [timestamp |-> t])>> ELSE l]

\* log.push({timestamp, ...intervention}) and the write of the log file, in a
\* try whose catch reports the failure and returns: the file is as it was
\* when it cannot be read or written.
logIntervention(l, writable, intervention, t) ==
    [threw |-> FALSE,
     log |-> IF writable THEN Append(l, Assign(intervention, [timestamp |-> t])) ELSE l]

LogFailedMessage == "the intervention log cannot be written"

Intervention(type, level, message, action, data) ==
    [type |-> type, level |-> level, message |-> message, action |-> action, data |-> data]

\* `error "<type>" seen <occurrences> times - <rule message>`
ErrorRecurrenceMessage(err) ==
    "error " \o err.type \o " seen " \o ToString(err.occurrences) \o " times - "
        \o INTERVENTION_RULES.error_recurrence.message

\* The filter without the exclusion of resolved entries.
IsRepeatedErrorAnyStatus(e) ==
    e.occurrences >= INTERVENTION_RULES.error_recurrence.threshold

\* The filter of the mistake registry: e.occurrences >= threshold and not resolved.
IsRepeatedError(e) ==
    /\ e.occurrences >= INTERVENTION_RULES.error_recurrence.threshold
    /\ e.status # "resolved"

RECURSIVE ErrorRecurrences(_)
ErrorRecurrences(repeatedErrors) ==
    IF repeatedErrors = <<>> THEN <<>>
    ELSE <<Intervention("error_recurrence",
                        INTERVENTION_RULES.error_recurrence.level,
                        ErrorRecurrenceMessage(Head(repeatedErrors)),
                        "force_counter_strategy",
                        [error |-> Head(repeatedErrors)])>>
         \o ErrorRecurrences(Tail(repeatedErrors))

\* The comparison with a strict inequality.
ReachedAbove(value, rule) == value > rule.threshold

\* value >= INTERVENTION_RULES.<rule>.threshold
Reached(value, rule) == value >= rule.threshold

\* checkIntervention that takes the days at a high level from the clock and
\* the time of the last update.
checkInterventionByClock(state, errorsFile, unresolvedFile, analysisResults) ==
    LET errs == loadErrors(errorsFile)
        unres == loadUnresolved(unresolvedFile)
        expansion ==
            IF Reached(analysisResults.new_projects_streak, INTERVENTION_RULES.expansion_limit)
            THEN <<Intervention("expansion_limit",
                                INTERVENTION_RULES.expansion_limit.level,
                                INTERVENTION_RULES.expansion_limit.message,
                                "lock_expansion",
                                [streak |-> analysisResults.new_projects_streak])>>
            ELSE <<>>
        unfinished ==
            IF Reached(Len(unres), INTERVENTION_RULES.unfinished_limit)
            THEN <<Intervention("unfinished_limit",
                                INTERVENTION_RULES.unfinished_limit.level,
                                INTERVENTION_RULES.unfinished_limit.message,
                                "lock_expansion",
                                [count |-> Len(unres)])>>
            ELSE <<>>
        repeatedErrors == SelectSeq(errs, IsRepeatedError)
        scattered ==
            IF Reached(analysisResults.scattered_streak, INTERVENTION_RULES.scattered_streak)
            THEN <<Intervention("scattered_streak",
                                INTERVENTION_RULES.scattered_streak.level,
                                INTERVENTION_RULES.scattered_streak.message,
                                "warn_scattered",
                                [streak |-> analysisResults.scattered_streak])>>
            ELSE <<>>
        highLevel ==
            IF /\ state.intervention_level >= 3
               /\ Reached(now - state.last_update, INTERVENTION_RULES.high_level_duration)
            THEN <<Intervention("high_level_duration",
                                INTERVENTION_RULES.high_level_duration.level,
                                INTERVENTION_RULES.high_level_duration.message,
                                "degrade_level",
                                [days |-> analysisResults.high_level_days])>>
            ELSE <<>>
    IN expansion \o unfinished \o ErrorRecurrences(repeatedErrors) \o scattered \o highLevel

checkIntervention(state, errorsFile, unresolvedFile, analysisResults) ==
    LET errs == loadErrors(errorsFile)
        unres == loadUnresolved(unresolvedFile)
        expansion ==
            IF Reached(analysisResults.new_projects_streak, INTERVENTION_RULES.expansion_limit)
            THEN <<Intervention("expansion_limit",
                                INTERVENTION_RULES.expansion_limit.level,
                                INTERVENTION_RULES.expansion_limit.message,
                                "lock_expansion",
                                [streak |-> analysisResults.new_projects_streak])>>
            ELSE <<>>
        unfinished ==
            IF Reached(Len(unres), INTERVENTION_RULES.unfinished_limit)
            THEN <<Intervention("unfinished_limit",
                                INTERVENTION_RULES.unfinished_limit.level,
                                INTERVENTION_RULES.unfinished_limit.message,
                                "lock_expansion",
                                [count |-> Len(unres)])>>
            ELSE <<>>
        repeatedErrors == SelectSeq(errs, IsRepeatedError)
        scattered ==
            IF Reached(analysisResults.scattered_streak, INTERVENTION_RULES.scattered_streak)
            THEN <<Intervention("scattered_streak",
                                INTERVENTION_RULES.scattered_streak.level,
                                INTERVENTION_RULES.scattered_streak.message,
                                "warn_scattered",
                                [streak |-> analysisResults.scattered_streak])>>
            ELSE <<>>
        highLevel ==
            IF /\ state.intervention_level >= 3
               /\ Reached(analysisResults.high_level_days, INTERVENTION_RULES.high_level_duration)
            THEN <<Intervention("high_level_duration",
                                INTERVENTION_RULES.high_level_duration.level,
                                INTERVENTION_RULES.high_level_duration.message,
                                "degrade_level",
                                [days |-> analysisResults.high_level_days])>>
            ELSE <<>>
    IN expansion \o unfinished \o ErrorRecurrences(repeatedErrors) \o scattered \o highLevel

InvalidLevelMessage == "intervention level must be between 1 and 3"

\* The skipped entry with no reason in it.
SkippedWithoutReason(intervention, reason) == Assign(intervention, [reason |-> Null])

Skipped(intervention, reason) == Assign(intervention, [reason |-> reason])

\* One pass of the loop body of executeIntervention.  run holds the disk
\* (st), the log file, whether it is writable, and the two result lists.  A
\* throw inside the switch jumps over logIntervention into the catch; a
\* throw of logIntervention would reach the catch after the push to executed
\* or skipped.
executeOne(run, intervention, t) ==
    LET logged == logIntervention(run.log, run.writable, intervention, t)
        afterLog(result) ==
            IF logged.threw
            THEN [result EXCEPT !.skipped = Append(@, Skipped(intervention, LogFailedMessage))]
            ELSE result
        done(st) ==
            afterLog([st |-> st,
                      log |-> logged.log,
                      writable |-> run.writable,
                      executed |-> Append(run.executed, intervention),
                      skipped |-> run.skipped])
        skip(reason) ==
            afterLog([st |-> run.st,
                      log |-> logged.log,
                      writable |-> run.writable,
                      executed |-> run.executed,
                      skipped |-> Append(run.skipped, Skipped(intervention, reason))])
        caught(st, message) ==
            [st |-> st,
             log |-> run.log,
             writable |-> run.writable,
             executed |-> run.executed,
             skipped |-> Append(run.skipped, Skipped(intervention, message))]
        level == getState(run.st.stateFile).intervention_level
    IN CASE intervention.action = "lock_expansion" ->
              LET locked == lockExpansion(run.st, intervention.message, t)
              IN IF InvalidLevel(intervention.level)
                 THEN caught(locked, InvalidLevelMessage)
                 ELSE done(setInterventionLevel(locked, intervention.level, t))
         [] intervention.action = "force_counter_strategy" -> done(run.st)
         [] intervention.action = "degrade_level" ->
              IF level > 1
              THEN IF InvalidLevel(level - 1)
                   THEN caught(run.st, InvalidLevelMessage)
                   ELSE done(setInterventionLevel(run.st, level - 1, t))
              ELSE skip("already at the lowest level")
         [] intervention.action = "warn_scattered" -> done(run.st)
         [] OTHER -> skip("unknown action")

RECURSIVE executeLoop(_, _, _)
executeLoop(run, interventions, t) ==
    IF interventions = <<>> THEN run
    ELSE executeLoop(executeOne(run, Head(interventions), t), Tail(interventions), t)

executeIntervention(st, l, writable, interventions, t) ==
    executeLoop([st |-> st, log |-> l, writable |-> writable,
                 executed |-> <<>>, skipped |-> <<>>],
                interventions, t)

checkUnlockCondition(state, unresolvedFile) ==
    LET unres == loadUnresolved(unresolvedFile)
    IN IF Len(unres) < 3 /\ state.expansion_lock
       THEN [canUnlock |-> TRUE, reason |-> "unfinished items are down to fewer than 3"]
       ELSE [canUnlock |-> FALSE, reason |-> state.active_constraint]

(***************************************************************************)
(* Reflection engine: the daily records and the mistake registry.  A       *)
(* record keeps its date, main_topic, energy_state and mistakes; its       *)
(* decisions, insights and threads are left out.  The file of a record is  *)
(* named after its date, and last_updated stands for its modification      *)
(* time, both being taken in saveToday.                                    *)
(***************************************************************************)
\* The record of the file of day t in a list, the empty list for null.
loadToday(dir, t) == SelectSeq(dir, LAMBDA f : f.date = t)

createDailyRecord(t) ==
    [date |-> t, main_topic |-> Null, mistakes |-> <<>>, energy_state |-> "neutral"]

\* saveToday stamps date and last_updated and writes the file of that date.
saveToday(dir, data, t) ==
    LET stamped == Assign(data, [date |-> t, last_updated |-> t])
        found == {i \in 1..Len(dir) : dir[i].date = t}
    IN IF found = {} THEN Append(dir, stamped)
       ELSE [dir EXCEPT ![CHOOSE i \in found : TRUE] = stamped]

\* errors.find(e => e.type === mistake): the first entry whose type is the
\* text of the mistake.
FindExisting(errs, mistake) ==
    LET found == {i \in 1..Len(errs) : errs[i].type = mistake}
    IN IF found = {} THEN 0 ELSE CHOOSE i \in found : \A j \in found : i <= j

updateErrorDatabase(errorsFile, mistake, type) ==
    LET errs == loadErrors(errorsFile)
        existing == FindExisting(errs, mistake)
    IN IF existing # 0
       THEN [errs EXCEPT ![existing].occurrences = @ + 1]
       ELSE Append(errs, [type |-> type, occurrences |-> 1, status |-> "active"])

\* addMistake: the record of today with the mistake pushed, and the registry.
addMistake(dir, errorsFile, mistake, type, t) ==
    LET loaded == loadToday(dir, t)
        record == IF loaded = <<>> THEN createDailyRecord(t) ELSE loaded[1]
        pushed == [record EXCEPT !.mistakes = Append(@, [mistake |-> mistake, type |-> type])]
    IN [errors |-> updateErrorDatabase(errorsFile, mistake, type),
        timelines |-> saveToday(dir, pushed, t)]

\* Array.prototype.sort with the comparator (a, b) => key(a) - key(b), which
\* is stable: the element at i goes behind those of a smaller key and those
\* of its own key that stand before it.  A comparator (a, b) => b.n - a.n is
\* the key -n.
StableSort(seq, key) ==
    LET rank(i) == Cardinality({j \in 1..Len(seq) :
                        key[j] < key[i] \/ (key[j] = key[i] /\ j < i)}) + 1
    IN [r \in 1..Len(seq) |-> seq[CHOOSE i \in 1..Len(seq) : rank(i) = r]]

\* getRecentTimelines that reads every file of the directory.
getRecentTimelinesUnfiltered(dir, t, days) ==
    StableSort(dir, [i \in 1..Len(dir) |-> dir[i].date])

\* The records of the files modified within the last `days` days, sorted by
\* date.
getRecentTimelines(dir, t, days) ==
    LET cutoff == t - days
        recent == SelectSeq(dir, LAMBDA f : f.last_updated > cutoff)
    IN StableSort(recent, [i \in 1..Len(recent) |-> recent[i].date])

(***************************************************************************)
(* Analysis engine.                                                        *)
(***************************************************************************)
AnalysisDays == 7

\* The counter without its reset.
ScatteredStepNoReset(streak, timeline) ==
    IF timeline.energy_state = "low" THEN streak + 1 ELSE streak

\* One pass of the loop over the timelines, on the scattered_streak counter.
ScatteredStep(streak, timeline) ==
    IF timeline.energy_state = "low" THEN streak + 1 ELSE 0

RECURSIVE ScatteredStreak(_, _)
ScatteredStreak(streak, recent) ==
    IF recent = <<>> THEN streak
    ELSE ScatteredStreak(ScatteredStep(streak, Head(recent)), Tail(recent))

\* topicCount[main_topic] += 1 for the records that have one; the entries of
\* topicCount in the order the keys were first set.
RECURSIVE TopicCount(_, _)
TopicCount(counts, recent) ==
    IF recent = <<>> THEN counts
    ELSE LET topic == Head(recent).main_topic
             found == {i \in 1..Len(counts) : counts[i].topic = topic}
             counted ==
                 IF topic = Null \/ topic = "" THEN counts
                 ELSE IF found = {} THEN Append(counts, [topic |-> topic, count |-> 1])
                 ELSE [counts EXCEPT ![CHOOSE i \in found : TRUE].count = @ + 1]
         IN TopicCount(counted, Tail(recent))

\* The topics that are canonical array indices, with their numbers.
IndexKeys == {"7", "2025"}

IndexOf(key) == IF key = "7" THEN 7 ELSE 2025

\* Object.entries(topicCount): the keys that are array indices come first, in
\* ascending numeric order, then the other keys in the order they were set.
ObjectEntries(counts) ==
    StableSort(counts,
               [i \in 1..Len(counts) |->
                   IF counts[i].topic \in IndexKeys THEN IndexOf(counts[i].topic)
                   ELSE IndexOf("2025") + 1])

Slice(seq, n) == SubSeq(seq, 1, IF Len(seq) < n THEN Len(seq) ELSE n)

RECURSIVE TotalMistakes(_)
TotalMistakes(recent) ==
    IF recent = <<>> THEN 0
    ELSE Len(Head(recent).mistakes) + TotalMistakes(Tail(recent))

\* energy_distribution[energy_state] += 1 over the records.
EnergyCount(recent, energy) == Len(SelectSeq(recent, LAMBDA r : r.energy_state = energy))

RECURSIVE AllMistakes(_)
AllMistakes(recent) ==
    IF recent = <<>> THEN <<>> ELSE Head(recent).mistakes \o AllMistakes(Tail(recent))

\* mistakeTypes[mistake.type] += 1; the entries in the order the types were
\* first set (no type is an array index).
RECURSIVE MistakeTypeCount(_, _)
MistakeTypeCount(counts, mistakes) ==
    IF mistakes = <<>> THEN counts
    ELSE LET type == Head(mistakes).type
             found == {i \in 1..Len(counts) : counts[i].type = type}
             counted ==
                 IF found = {} THEN Append(counts, [type |-> type, count |-> 1])
                 ELSE [counts EXCEPT ![CHOOSE i \in found : TRUE].count = @ + 1]
         IN MistakeTypeCount(counted, Tail(mistakes))

analyzeRecentData(dir, errorsFile, unresolvedFile, t, days) ==
    LET recent == getRecentTimelines(dir, t, days)
        errs == loadErrors(errorsFile)
        unres == loadUnresolved(unresolvedFile)
        topicCount == ObjectEntries(TopicCount(<<>>, recent))
        repeated == SelectSeq(errs, LAMBDA e : e.occurrences >= 2 /\ e.status # "resolved")
        mistakeTypes == SelectSeq(MistakeTypeCount(<<>>, AllMistakes(recent)),
                                  LAMBDA m : m.count >= 2)
    IN [days_analyzed |-> Len(recent),
        total_mistakes |-> TotalMistakes(recent),
        energy_distribution |->
            [high |-> EnergyCount(recent, "high"),
             neutral |-> EnergyCount(recent, "neutral"),
             low |-> EnergyCount(recent, "low")],
        repeated_mistakes |->
            StableSort(mistakeTypes, [i \in 1..Len(mistakeTypes) |-> -mistakeTypes[i].count]),
        high_frequency_topics |->
            Slice(StableSort(topicCount,
                             [i \in 1..Len(topicCount) |-> -topicCount[i].count]), 5),
        repeated_errors |->
            StableSort(repeated, [i \in 1..Len(repeated) |-> -repeated[i].occurrences]),
        new_projects_streak |-> 0,
        scattered_streak |-> ScatteredStreak(0, recent),
        high_level_days |-> 0,
        unfinished_count |-> Len(SelectSeq(unres, LAMBDA u : u.status = "open"))]

\* getInterventionData that takes the number of records for the streak.
getInterventionDataByDays(analysis) ==
    [new_projects_streak |-> analysis.days_analyzed,
     scattered_streak |-> analysis.scattered_streak,
     high_level_days |-> 0,
     error_count |-> Len(analysis.repeated_errors),
     unfinished_count |-> analysis.unfinished_count]

\* getInterventionData that takes the number of records for the days at a
\* high level.
getInterventionDataHighDays(analysis) ==
    [new_projects_streak |->
        IF analysis.high_frequency_topics = <<>> THEN 0
        ELSE analysis.high_frequency_topics[1].count,
     scattered_streak |-> analysis.scattered_streak,
     high_level_days |-> analysis.days_analyzed,
     error_count |-> Len(analysis.repeated_errors),
     unfinished_count |-> analysis.unfinished_count]

\* What getInterventionData makes of analyzeRecentData(7).
getInterventionData(analysis) ==
    [new_projects_streak |->
        IF analysis.high_frequency_topics = <<>> THEN 0
        ELSE analysis.high_frequency_topics[1].count,
     scattered_streak |-> analysis.scattered_streak,
     high_level_days |-> 0,
     error_count |-> Len(analysis.repeated_errors),
     unfinished_count |-> analysis.unfinished_count]

(***************************************************************************)
(* The current disk, and the bound on the history file.                    *)
(***************************************************************************)
Disk == Store(stateFile, history)

\* The two processes, and a process with no updateState call in flight.
Procs == {1, 2}

Idle == [pc |-> "idle"]

IdleProcs == [p \in Procs |-> Idle]

Fits(st) == Len(st.history) <= MaxHist

Returned(op) == [op |-> op, threw |-> FALSE]

Thrown(op) == [op |-> op, threw |-> TRUE]

LevelArgs == 0..MaxLevelArg

Reasons == {Null, "", "manual"}

Goals == {"ship v1"}

Updates ==
    {[intervention_level |-> n] : n \in LevelArgs}
    \cup {[expansion_lock |-> b] : b \in BOOLEAN}
    \cup {[active_constraint |-> "manual"]}

Write(st) ==
    /\ Fits(st)
    /\ stateFile' = st.stateFile
    /\ history' = st.history

UpdateState ==
    \E updates \in Updates :
        /\ Write(updateState(Disk, updates, now))
        /\ ret' = [op |-> "updateState", threw |-> FALSE, updates |-> updates]
        /\ UNCHANGED <<now, log, errors, unresolved, timelines, logWritable, procs, indexData>>

SetFocusMode ==
    \E mode \in {"deep", "bogus"} :
        /\ IF InvalidFocusMode(mode)
           THEN /\ ret' = Thrown("setFocusMode")
                /\ UNCHANGED <<stateFile, history>>
           ELSE /\ Write(updateState(Disk, [focus_mode |-> mode], now))
                /\ ret' = Returned("setFocusMode")
        /\ UNCHANGED <<now, log, errors, unresolved, timelines, logWritable, procs, indexData>>

SetInterventionLevel ==
    \E level \in LevelArgs :
        /\ IF InvalidLevel(level)
           THEN /\ ret' = [op |-> "setInterventionLevel", threw |-> TRUE, level |-> level]
                /\ UNCHANGED <<stateFile, history>>
           ELSE /\ Write(setInterventionLevel(Disk, level, now))
                /\ ret' = [op |-> "setInterventionLevel", threw |-> FALSE, level |-> level]
        /\ UNCHANGED <<now, log, errors, unresolved, timelines, logWritable, procs, indexData>>

LockExpansion ==
    \E constraint \in Reasons :
        /\ Write(lockExpansion(Disk, constraint, now))
        /\ ret' = Returned("lockExpansion")
        /\ UNCHANGED <<now, log, errors, unresolved, timelines, logWritable, procs, indexData>>

UnlockExpansion ==
    /\ Write(unlockExpansion(Disk, now))
    /\ ret' = Returned("unlockExpansion")
    /\ UNCHANGED <<now, log, errors, unresolved, timelines, logWritable, procs, indexData>>

SetCurrentGoal ==
    \E goal \in Goals :
        /\ Write(updateState(Disk, [current_goal |-> goal], now))
        /\ ret' = Returned("setCurrentGoal")
        /\ UNCHANGED <<now, log, errors, unresolved, timelines, logWritable, procs, indexData>>

ResetState ==
    /\ Write(resetState(Disk, now))
    /\ ret' = Returned("resetState")
    /\ UNCHANGED <<now, log, errors, unresolved, timelines, logWritable, procs, indexData>>

GetState ==
    /\ ret' = [op |-> "getState", threw |-> FALSE, state |-> getState(stateFile)]
    /\ UNCHANGED <<now, stateFile, history, log, errors, unresolved, timelines, logWritable, procs,
                   indexData>>

CanExpand ==
    /\ ret' = [op |-> "canExpand", threw |-> FALSE, result |-> canExpand(stateFile)]
    /\ UNCHANGED <<now, stateFile, history, log, errors, unresolved, timelines, logWritable, procs,
                   indexData>>

\* The state file is damaged or removed while no call runs; ret names the
\* fault.
DamageStateFile ==
    /\ stateFile.status = "ok"
    /\ stateFile' = [stateFile EXCEPT !.status = "corrupt"]
    /\ ret' = Returned("(state file damaged)")
    /\ UNCHANGED <<now, history, log, errors, unresolved, timelines, logWritable, procs, indexData>>

RemoveStateFile ==
    /\ stateFile.status # "absent"
    /\ stateFile' = [status |-> "absent", data |-> DEFAULT_STATE]
    /\ ret' = Returned("(state file removed)")
    /\ UNCHANGED <<now, history, log, errors, unresolved, timelines, logWritable, procs, indexData>>

\* Time passes between calls.
TickDays == {HistoryDays - 1, HistoryDays, HistoryDays + 1}

Tick ==
    \E d \in TickDays :
        /\ now + d <= MaxTime
        /\ now' = now + d
        /\ UNCHANGED <<stateFile, history, log, errors, unresolved, timelines, logWritable, procs, ret,
                   indexData>>

(***************************************************************************)
(* updateState in two processes: each file read and each file write is a   *)
(* step of its own, and the steps of the two calls interleave.             *)
(***************************************************************************)
ProcUpdates ==
    {[current_goal |-> "ship v1"], [intervention_level |-> 2], [expansion_lock |-> TRUE]}

\* The merge on the state as it is on disk at the time of the write.
ReadModifyWriteReread(read, disk, updates) == Assign(disk, updates)

\* Object.assign(state, updates) on the state the call loaded when it began.
ReadModifyWrite(read, disk, updates) == Assign(read, updates)

\* const state = loadState()
ProcLoadState(p) ==
    /\ procs[p].pc = "idle"
    /\ \E updates \in ProcUpdates :
          procs' = [procs EXCEPT ![p] = [pc |-> "loaded", updates |-> updates,
                                         read |-> loadState(stateFile)]]
    /\ UNCHANGED <<now, stateFile, history, log, errors, unresolved, timelines, logWritable,
                   ret, indexData>>

\* Object.assign, created_at, saveState(state)
ProcSaveState(p) ==
    /\ procs[p].pc = "loaded"
    /\ LET assigned == ReadModifyWrite(procs[p].read, loadState(stateFile), procs[p].updates)
           created == IF assigned.created_at = NullTime
                      THEN [assigned EXCEPT !.created_at = now]
                      ELSE assigned
           saved == saveState(created, now)
       IN /\ stateFile' = saved
          /\ procs' = [procs EXCEPT ![p] = Assign(@, [pc |-> "saved", state |-> saved.data])]
    /\ UNCHANGED <<now, history, log, errors, unresolved, timelines, logWritable, ret, indexData>>

\* saveToHistory(state): const history = loadHistory()
ProcLoadHistory(p) ==
    /\ procs[p].pc = "saved"
    /\ procs' = [procs EXCEPT ![p] = Assign(@, [pc |-> "historyLoaded",
                                                history |-> loadHistory(history)])]
    /\ UNCHANGED <<now, stateFile, history, log, errors, unresolved, timelines, logWritable,
                   ret, indexData>>

\* saveToHistory(state): push, filter and write, and updateState returns.
ProcSaveHistory(p) ==
    /\ procs[p].pc = "historyLoaded"
    /\ history' = saveToHistory(procs[p].history, procs[p].state, now)
    /\ Len(history') <= MaxHist
    /\ procs' = [procs EXCEPT ![p] = Assign(@, [pc |-> "done"])]
    /\ UNCHANGED <<now, stateFile, log, errors, unresolved, timelines, logWritable, ret, indexData>>

(***************************************************************************)
(* Memory engine: add is async, and two calls in flight take turns at the  *)
(* await.  An entry keeps its id and text; its metadata and vector are     *)
(* left out.                                                               *)
(***************************************************************************)
Ids == {"session_1", "session_2"}

Texts == {"draft", "final"}

\* indexData.findIndex(item => item.id === id), 0 for -1.
findIndex(index, id) ==
    LET found == {i \in 1..Len(index) : index[i].id = id}
    IN IF found = {} THEN 0 ELSE CHOOSE i \in found : \A j \in found : i <= j

\* add up to its await: findIndex, and the embedding request is sent.
AddStart(p) ==
    /\ procs[p].pc = "idle"
    /\ \E id \in Ids, text \in Texts :
          procs' = [procs EXCEPT ![p] = [pc |-> "embedding", id |-> id, text |-> text,
                                         existingIndex |-> findIndex(indexData, id)]]
    /\ UNCHANGED <<now, stateFile, history, log, errors, unresolved, timelines, logWritable,
                   indexData, ret>>

\* add after its await: the entry replaces the one at existingIndex, or is
\* pushed; add returns true.
AddResolve(p) ==
    /\ procs[p].pc = "embedding"
    /\ LET entry == [id |-> procs[p].id, text |-> procs[p].text, timestamp |-> now]
       IN indexData' = IF procs[p].existingIndex > 0
                       THEN [indexData EXCEPT ![procs[p].existingIndex] = entry]
                       ELSE Append(indexData, entry)
    /\ Len(indexData') <= MaxIndex
    /\ procs' = [procs EXCEPT ![p] = Idle]
    /\ ret' = [op |-> "add", threw |-> FALSE, id |-> procs[p].id, result |-> TRUE]
    /\ UNCHANGED <<now, stateFile, history, log, errors, unresolved, timelines, logWritable>>

\* The embedding request fails: the catch reports it and add returns false.
AddReject(p) ==
    /\ procs[p].pc = "embedding"
    /\ procs' = [procs EXCEPT ![p] = Idle]
    /\ ret' = [op |-> "add", threw |-> FALSE, id |-> procs[p].id, result |-> FALSE]
    /\ UNCHANGED <<now, stateFile, history, log, errors, unresolved, timelines, logWritable,
                   indexData>>

(***************************************************************************)
(* Calls into the intervention engine.                                     *)
(***************************************************************************)
SeqsUpTo(S, n) == UNION {[1..k -> S] : k \in 0..n}

SampleError == [type |-> "overengineering", occurrences |-> 3, status |-> "active"]

\* The events executeIntervention is called with: one of each action, a
\* lock_expansion event with a level no rule has, and an unknown action.
EventInputs ==
    {Intervention("expansion_limit", 2, INTERVENTION_RULES.expansion_limit.message,
                  "lock_expansion", [streak |-> 7]),
     Intervention("error_recurrence", 2, ErrorRecurrenceMessage(SampleError),
                  "force_counter_strategy", [error |-> SampleError]),
     Intervention("scattered_streak", 1, INTERVENTION_RULES.scattered_streak.message,
                  "warn_scattered", [streak |-> 3]),
     Intervention("high_level_duration", 1, INTERVENTION_RULES.high_level_duration.message,
                  "degrade_level", [days |-> 3]),
     Intervention("custom", MaxLevelArg, "", "lock_expansion", [streak |-> 0]),
     Intervention("custom", 1, "take a break", "notify", [streak |-> 0])}

Ran(op, interventions, run) ==
    [op |-> op, threw |-> FALSE, interventions |-> interventions,
     executed |-> run.executed, skipped |-> run.skipped]

\* A run starts while the log file has room for an entry of each event.
Execute(op, interventions) ==
    /\ Len(log) + Len(interventions) <= MaxLog
    /\ \E run \in {executeIntervention(Disk, log, logWritable, interventions, now)} :
          /\ Write(run.st)
          /\ log' = run.log
          /\ ret' = Ran(op, interventions, run)

EventLists == SeqsUpTo(EventInputs, MaxEvents)

ExecuteIntervention ==
    \E interventions \in EventLists :
        /\ Execute("executeIntervention", interventions)
        /\ UNCHANGED <<now, errors, unresolved, timelines, logWritable, procs, indexData>>

TopicCounts ==
    {0, INTERVENTION_RULES.expansion_limit.threshold - 1,
     INTERVENTION_RULES.expansion_limit.threshold}

\* checkSystemStatus: the state and the answer of canExpand (the
\* configuration is left out).
checkSystemStatus(sf) == [state |-> getState(sf), canExpand |-> canExpand(sf)]

\* generateStartupReport: the analysis of the last 7 days and the status are
\* taken, then checkIntervention runs on the analysis and executeIntervention
\* on what it returned; the report shows the status and is returned with it.
GenerateStartupReport ==
    LET analysis == analyzeRecentData(timelines, errors, unresolved, now, AnalysisDays)
        interventionData == getInterventionData(analysis)
        status == checkSystemStatus(stateFile)
        interventions == checkIntervention(getState(stateFile), errors, unresolved,
                                           interventionData)
    IN /\ Len(log) + Len(interventions) <= MaxLog
       /\ \E run \in {executeIntervention(Disk, log, logWritable, interventions, now)} :
             /\ Write(run.st)
             /\ log' = run.log
             /\ ret' = Assign(Ran("generateStartupReport", interventions, run),
                              [status |-> status])
       /\ UNCHANGED <<now, errors, unresolved, timelines, logWritable, procs, indexData>>

AnalysisResults ==
    [new_projects_streak : TopicCounts,
     scattered_streak : {0, MaxStreak - 1, MaxStreak},
     high_level_days : {0, MaxStreak}]

CheckIntervention ==
    \E analysisResults \in AnalysisResults :
        /\ ret' = [op |-> "checkIntervention", threw |-> FALSE,
                   analysisResults |-> analysisResults,
                   interventions |-> checkIntervention(getState(stateFile), errors,
                                                       unresolved, analysisResults)]
        /\ UNCHANGED <<now, stateFile, history, log, errors, unresolved, timelines, logWritable, procs,
                   indexData>>

\* checkIntervention on any analysis results, then executeIntervention on
\* what it returned.
CheckThenExecute ==
    \E analysisResults \in AnalysisResults :
        LET interventions == checkIntervention(getState(stateFile), errors, unresolved,
                                               analysisResults)
        IN /\ Len(log) + Len(interventions) <= MaxLog
           /\ \E run \in {executeIntervention(Disk, log, logWritable, interventions, now)} :
                 /\ Write(run.st)
                 /\ log' = run.log
                 /\ ret' = Assign(Ran("checkThenExecute", interventions, run),
                                  [analysisResults |-> analysisResults])
           /\ UNCHANGED <<now, errors, unresolved, timelines, logWritable, procs, indexData>>

CheckUnlockCondition ==
    /\ ret' = [op |-> "checkUnlockCondition", threw |-> FALSE,
               result |-> checkUnlockCondition(getState(stateFile), unresolved)]
    /\ UNCHANGED <<now, stateFile, history, log, errors, unresolved, timelines, logWritable, procs,
                   indexData>>

(***************************************************************************)
(* Calls into the reflection engine and the analysis engine.               *)
(***************************************************************************)
Mistakes == {"forgot tests", "scope creep"}

MistakeTypes == {"general", "scope creep"}

AddMistake ==
    \E mistake \in Mistakes, type \in MistakeTypes :
        /\ TotalMistakes(timelines) < MaxMistakes
        /\ \E added \in {addMistake(timelines, errors, mistake, type, now)} :
              /\ errors' = added.errors
              /\ timelines' = added.timelines
        /\ ret' = [op |-> "addMistake", threw |-> FALSE, mistake |-> mistake, type |-> type]
        /\ UNCHANGED <<now, stateFile, history, log, unresolved, logWritable, procs, indexData>>

AnalyzeRecentData ==
    /\ ret' = [op |-> "analyzeRecentData", threw |-> FALSE,
               analysis |-> analyzeRecentData(timelines, errors, unresolved, now,
                                              AnalysisDays)]
    /\ UNCHANGED <<now, stateFile, history, log, errors, unresolved, timelines, logWritable, procs,
                   indexData>>

MainTopics == {"refactor", "new app"}

EnergyStates == {"low", "high"}

\* The record of a day as setMainTopic and setEnergyState leave it.
Record(date, topic, energy) ==
    [date |-> date, main_topic |-> topic, mistakes |-> <<>>, energy_state |-> energy,
     last_updated |-> date]

\* Directories of one record per day for the n days up to t, with any
\* energy states and no topic set; and those of MaxWindow days with any
\* topics, or none, and the energy of a new record.
Timelines(t) ==
    UNION {{[i \in 1..n |-> Record(t - n + i, Null, energy[i])] :
                energy \in [1..n -> EnergyStates]} : n \in 0..MaxWindow}
    \cup {[i \in 1..MaxWindow |-> Record(t - MaxWindow + i, topic[i], "neutral")] :
                topic \in [1..MaxWindow -> MainTopics \cup {Null}]}

\* A record for each of the last 7 days, all on one topic and all low.
FullWindow(t) ==
    [i \in 1..AnalysisDays |-> Record(t - AnalysisDays + i, "new app", "low")]

\* A record for each of the last 7 days, all on one topic and none low.
TopicWindow(t) ==
    [i \in 1..AnalysisDays |-> Record(t - AnalysisDays + i, "new app", "neutral")]

\* A record for each of the last MaxStreak days, with no topic and none low.
QuietWindow(t) ==
    [i \in 1..MaxStreak |-> Record(t - MaxStreak + i, Null, "high")]

\* The main topics of a week of work on several things.
DayTopics == <<"refactor", "new app", "2025", "docs", "tests", "7">>

\* The topic of day i by choice: its own (the last of DayTopics from the sixth
\* day on), the first topic again, or none.
DayTopic(i, choice) ==
    CASE choice = 1 -> DayTopics[IF i < Len(DayTopics) THEN i ELSE Len(DayTopics)]
      [] choice = 2 -> DayTopics[1]
      [] OTHER -> Null

\* Directories of one record per day for the MaxWindow days up to t.
TopicWindows(t) ==
    {[i \in 1..MaxWindow |-> Record(t - MaxWindow + i, DayTopic(i, choice[i]), "neutral")] :
        choice \in [1..MaxWindow -> 1..3]}

\* A record of day t with a mistake recorded twice.
MistakeRecord(t) ==
    [Record(t, Null, "neutral") EXCEPT
        !.mistakes = <<[mistake |-> "scope creep", type |-> "general"],
                       [mistake |-> "scope creep", type |-> "general"]>>]

\* Directories last written on day t: those of Timelines(t), and one with a
\* record of two mistakes.
Directories(t) == Timelines(t) \cup {<<MistakeRecord(t)>>}

(***************************************************************************)
(* Registries.                                                             *)
(***************************************************************************)
Topic(i) == "thread " \o ToString(i)

\* item.status = 'resolved' on the first entry with that topic, if any (the
\* dates of an entry are left out).
resolveUnresolved(file, topic) ==
    LET found == {i \in 1..Len(file) : file[i].topic = topic}
        item == CHOOSE i \in found : \A j \in found : i <= j
    IN IF found = {} THEN file
       ELSE [file EXCEPT ![item] = Assign(@, [status |-> "resolved"])]

\* updateUnresolvedDatabase that sets the entry it finds to open again.
updateUnresolvedDatabaseReopening(file, thread) ==
    LET found == {i \in 1..Len(file) : file[i].topic = thread}
    IN IF found = {} THEN Append(file, [topic |-> thread, status |-> "open"])
       ELSE [file EXCEPT ![CHOOSE i \in found : \A j \in found : i <= j] =
                            Assign(@, [status |-> "open"])]

\* unresolved.find(u => u.topic === thread): a new open entry when there is
\* none; the entry found only gets its last_touched date, which is left out.
updateUnresolvedDatabase(file, thread) ==
    LET found == {i \in 1..Len(file) : file[i].topic = thread}
    IN IF found = {} THEN Append(file, [topic |-> thread, status |-> "open"])
       ELSE file

\* addUnfinished: the registry, and the record of today saved again.
addUnfinished(dir, unresolvedFile, thread, t) ==
    LET loaded == loadToday(dir, t)
        record == IF loaded = <<>> THEN createDailyRecord(t) ELSE loaded[1]
    IN [unresolved |-> updateUnresolvedDatabase(unresolvedFile, thread),
        timelines |-> saveToday(dir, record, t)]

AddUnfinished ==
    \E i \in 1..MaxThreads :
        /\ \E added \in {addUnfinished(timelines, unresolved, Topic(i), now)} :
              /\ unresolved' = added.unresolved
              /\ timelines' = added.timelines
        /\ ret' = [op |-> "addUnfinished", threw |-> FALSE, thread |-> Topic(i)]
        /\ UNCHANGED <<now, stateFile, history, log, errors, logWritable, procs, indexData>>

ResolveUnresolved ==
    \E i \in 1..MaxUnresolved :
        /\ unresolved' = resolveUnresolved(unresolved, Topic(i))
        /\ ret' = Returned("resolveUnresolved")
        /\ UNCHANGED <<now, stateFile, history, log, errors, timelines, logWritable, procs, indexData>>

\* Registries addUnfinished and resolveUnresolved can leave behind: one entry
\* per topic, each open or resolved.
UnresolvedRegistries ==
    UNION {{[i \in 1..n |-> [topic |-> Topic(i), status |-> status[i]]] :
                status \in [1..n -> {"open", "resolved"}]} : n \in 0..MaxUnresolved}

\* The registry after n addUnfinished calls with n threads.
OpenRegistry(n) == [i \in 1..n |-> [topic |-> Topic(i), status |-> "open"]]

ErrorTypes == {"overengineering", "scope creep"}

\* Registries addMistake can leave behind, with entries marked resolved by
\* hand: only the first entry of a type is ever found again and counted up.
ErrorRegistries ==
    {file \in SeqsUpTo([type : ErrorTypes, occurrences : 1..MaxOccurrences,
                        status : {"active", "resolved"}], MaxErrors) :
        \A i, j \in 1..Len(file) :
            (i < j /\ file[i].type = file[j].type) => file[j].occurrences = 1}

(***************************************************************************)
(* Properties.                                                             *)
(***************************************************************************)
State == getState(stateFile)

NonEmpty(text) == text # Null /\ text # ""

OpenCount(file) == Cardinality({i \in 1..Len(file) : file[i].status = "open"})

Range(seq) == {seq[i] : i \in 1..Len(seq)}

RunOps == {"executeIntervention", "generateStartupReport"}

\* In a step that is a run of executeIntervention: the run as it stands
\* after the first k events of the list.
RunAfter(k) ==
    executeIntervention(Disk, log, logWritable, SubSeq(ret'.interventions, 1, k), now)

\* Holds when P(event, before, after) holds of every event of the run in the
\* step, before and after being the run as it stands before and after it.
EveryEvent(P(_, _, _)) ==
    ret'.op \in RunOps =>
        \A k \in 1..Len(ret'.interventions) :
            \A before \in {RunAfter(k - 1)} :
                \A after \in {executeOne(before, ret'.interventions[k], now)} :
                    P(ret'.interventions[k], before, after)

StateOf(run) == getState(run.st.stateFile)

LevelOf(run) == StateOf(run).intervention_level

\* The event went to executed, and nothing went to skipped.
WasExecuted(event, before, after) ==
    /\ after.executed = Append(before.executed, event)
    /\ after.skipped = before.skipped

\* The event went to skipped with a reason, and nothing went to executed.
WasSkipped(event, before, after) ==
    /\ after.executed = before.executed
    /\ Len(after.skipped) = Len(before.skipped) + 1
    /\ SubSeq(after.skipped, 1, Len(before.skipped)) = before.skipped
    /\ LET last == after.skipped[Len(after.skipped)]
       IN /\ NonEmpty(last.reason)
          /\ last.type = event.type
          /\ last.action = event.action

\* C1: after any sequence of state mutations the persisted intervention_level
\* is one of 1, 2, 3.
C1_LevelInRange == State.intervention_level \in {1, 2, 3}

\* C2: in every persisted state expansion_lock is true if and only if
\* active_constraint is non-empty.
C2_LockIffConstraint == State.expansion_lock <=> NonEmpty(State.active_constraint)

Degraded(event, before, after) ==
    event.action = "degrade_level" =>
        /\ LevelOf(before) > 1 =>
              /\ LevelOf(after) = LevelOf(before) - 1
              /\ WasExecuted(event, before, after)
        /\ LevelOf(before) = 1 =>
              /\ LevelOf(after) = 1
              /\ WasSkipped(event, before, after)
        /\ LevelOf(before) >= 1 => LevelOf(after) >= 1

\* C3: a degrade_level event executed at a level above 1 lowers the level by
\* exactly 1 and is reported executed; at level 1 it is reported skipped with
\* a reason and the level stays 1; a level of 1 or more never goes below 1.
C3_Degrade == [][EveryEvent(Degraded)]_vars

UpdateOps == {"updateState", "setFocusMode", "setInterventionLevel", "lockExpansion",
              "unlockExpansion", "setCurrentGoal"}

\* C4: after an update, the history holds no entry older than 30 days before
\* that update's timestamp.
C4_HistoryWindow ==
    (ret.op \in UpdateOps /\ ~ret.threw) =>
        /\ history # <<>>
        /\ history[Len(history)].timestamp = State.last_update
        /\ \A i \in 1..Len(history) :
              history[i].timestamp >= State.last_update - HistoryDays

\* C4, witness: two fields were set since day 1, the later one more than 30
\* days after it, and the history holds the later entry only.
C4_Pruned ==
    /\ ret.op = "setCurrentGoal"
    /\ State.created_at = 1
    /\ State.intervention_level = 2
    /\ State.current_goal = "ship v1"
    /\ State.last_update > 1 + HistoryDays
    /\ Len(history) = 1

\* C5: the unlock check returns canUnlock = true if and only if
\* expansion_lock is true and fewer than 3 items are still open; otherwise the
\* reason is the active constraint.
C5_UnlockIffFewOpen ==
    ret.op = "checkUnlockCondition" =>
        /\ ret.result.canUnlock <=> (State.expansion_lock /\ OpenCount(unresolved) < 3)
        /\ ~ret.result.canUnlock => ret.result.reason = State.active_constraint

\* C6: checkIntervention emits an unfinished_limit event (lock_expansion,
\* level 3) if and only if at least 5 entries of the unresolved registry are
\* open.
C6_UnfinishedIffFiveOpen ==
    ret.op = "checkIntervention" =>
        ((\E i \in 1..Len(ret.interventions) :
              /\ ret.interventions[i].type = "unfinished_limit"
              /\ ret.interventions[i].action = "lock_expansion"
              /\ ret.interventions[i].level = 3)
         <=> OpenCount(unresolved) >= 5)

\* The state right after the event has the lock and the event's message.
LockedBy(event, after) ==
    /\ StateOf(after).expansion_lock
    /\ StateOf(after).active_constraint = event.message

\* A control-loop run over 6 or more open items ends locked at level 3.
SixOpenEndsLocked ==
    (ret'.op = "generateStartupReport" /\ OpenCount(unresolved) >= 6) =>
        /\ getState(stateFile').expansion_lock
        /\ getState(stateFile').intervention_level = 3

LockedAtLevel(event, before, after) ==
    event.action = "lock_expansion" =>
        /\ LockedBy(event, after)
        /\ LevelOf(after) = event.level

LockedAtValidLevel(event, before, after) ==
    event.action = "lock_expansion" =>
        /\ LockedBy(event, after)
        /\ IF event.level \in 1..3
           THEN /\ LevelOf(after) = event.level
                /\ WasExecuted(event, before, after)
           ELSE /\ LevelOf(after) = LevelOf(before)
                /\ WasSkipped(event, before, after)

C8_OneEventPerRepeatedError ==
    ret.op = "checkIntervention" =>
        LET events == SelectSeq(ret.interventions, LAMBDA e : e.type = "error_recurrence")
            entries(e) == {i \in 1..Len(errors) : errors[i] = e}
            eventsOf(e) == {j \in 1..Len(events) : events[j].data.error = e}
        IN /\ \A j \in 1..Len(events) :
                 /\ events[j].action = "force_counter_strategy"
                 /\ events[j].level = 2
                 /\ events[j].data.error \in Range(errors)
           /\ \A e \in Range(errors) :
                 Cardinality(eventsOf(e)) =
                    IF e.occurrences >= 3 /\ e.status # "resolved"
                    THEN Cardinality(entries(e))
                    ELSE 0
           /\ \A j \in 1..Len(ret.interventions) :
                 ret.interventions[j].action = "force_counter_strategy" =>
                    ret.interventions[j].type = "error_recurrence"

\* C8, witness: a registry with an entry at 3 active occurrences next to a
\* resolved entry with as many or more, checked: one event.
C8_OneOfTwo ==
    /\ ret.op = "checkIntervention"
    /\ Len(errors) = 2
    /\ \E i \in 1..2 : errors[i].occurrences = 3 /\ errors[i].status = "active"
    /\ \E i \in 1..2 : errors[i].occurrences >= 3 /\ errors[i].status = "resolved"
    /\ Cardinality({j \in 1..Len(ret.interventions) :
                        ret.interventions[j].type = "error_recurrence"}) = 1

Advisory == {"force_counter_strategy", "warn_scattered"}

OnlyLogged(event, before, after) ==
    event.action \in Advisory =>
        /\ after.st = before.st
        /\ WasExecuted(event, before, after)
        /\ Len(after.log) = Len(before.log) + 1
        /\ SubSeq(after.log, 1, Len(before.log)) = before.log
        /\ LET entry == after.log[Len(after.log)]
           IN /\ entry.timestamp = now
              /\ entry.type = event.type
              /\ entry.message = event.message

\* A run of advisory events only changes nothing but the log.
AdvisoryRunOnlyLogs ==
    (/\ ret'.op \in RunOps
     /\ \A k \in 1..Len(ret'.interventions) : ret'.interventions[k].action \in Advisory) =>
        /\ UNCHANGED <<stateFile, history>>
        /\ ret'.executed = ret'.interventions
        /\ ret'.skipped = <<>>
        /\ Len(log') = Len(log) + Len(ret'.interventions)

\* C9: a force_counter_strategy or warn_scattered event is reported executed
\* and leaves the state and the state history as they were; the log gets its
\* entry.  A run of such events only changes nothing but the log.
C9_AdvisoryEventsOnlyLog == [][EveryEvent(OnlyLogged) /\ AdvisoryRunOnlyLogs]_vars

\* C9, witness: a run of a force_counter_strategy and a warn_scattered event
\* has ended, both executed and logged.
C9_AdvisoryRun ==
    /\ ret.op \in RunOps
    /\ Len(ret.interventions) = 2
    /\ {ret.interventions[1].action, ret.interventions[2].action} = Advisory
    /\ ret.executed = ret.interventions
    /\ Len(log) = 2

\* C10: every event passed to executeIntervention, executed or skipped, gets
\* exactly one entry in the intervention log during the run.
C10_EveryEventLogged ==
    [][ret'.op \in RunOps =>
        /\ Len(ret'.executed) + Len(ret'.skipped) = Len(ret'.interventions)
        /\ Len(log') = Len(log) + Len(ret'.interventions)
        /\ \A k \in 1..Len(ret'.interventions) :
              /\ log'[Len(log) + k].type = ret'.interventions[k].type
              /\ log'[Len(log) + k].action = ret'.interventions[k].action]_vars

TableOrder ==
    <<"expansion_limit", "unfinished_limit", "error_recurrence", "scattered_streak",
      "high_level_duration">>

Position(type) == CHOOSE i \in 1..Len(TableOrder) : TableOrder[i] = type

\* C11: checkIntervention returns its events in rule-table order, and its
\* error_recurrence events by descending occurrences, whatever the order of
\* the mistake registry.
C11_TableOrder ==
    ret.op = "checkIntervention" =>
        \A i, j \in 1..Len(ret.interventions) :
            i < j =>
                /\ Position(ret.interventions[i].type) <= Position(ret.interventions[j].type)
                /\ (/\ ret.interventions[i].type = "error_recurrence"
                    /\ ret.interventions[j].type = "error_recurrence") =>
                       ret.interventions[i].data.error.occurrences
                           >= ret.interventions[j].data.error.occurrences

\* The step is an updateState call, and Kept(f, before, after) holds of every
\* field f the updates do not name, last_update aside.
RoundTrip(Kept(_, _, _)) ==
    (ret'.op = "updateState" /\ now' = now) =>
        LET before == getState(stateFile)
            after == getState(stateFile')
        IN /\ \A f \in DOMAIN ret'.updates : after[f] = ret'.updates[f]
           /\ after.last_update = now
           /\ \A f \in DOMAIN before \ (DOMAIN ret'.updates \cup {"last_update"}) :
                 Kept(f, before, after)

Same(f, before, after) == after[f] = before[f]

SameOrCreated(f, before, after) ==
    IF f = "created_at" /\ before.created_at = NullTime
    THEN after.created_at = now
    ELSE after[f] = before[f]

\* C12 as stated: after updateState(delta), getState() has the delta's values
\* in the delta's fields, last_update refreshed, and every other field,
\* created_at included, as it was before.
C12_RoundTrip == [][RoundTrip(Same)]_vars

\* C12, amended: after updateState(delta), getState() has the delta's values
\* in the delta's fields, last_update refreshed, and every other field as it
\* was before, except that a created_at that was empty before is set to the
\* time of the update.
C12_RoundTripCreated == [][RoundTrip(SameOrCreated)]_vars

\* C12, witness: the level was updated a month after the lock was; the lock
\* and created_at are those of the first update, last_update is new.
C12_LaterUpdate ==
    /\ ret.op = "updateState"
    /\ ret.updates = [intervention_level |-> 2]
    /\ State.intervention_level = 2
    /\ State.expansion_lock
    /\ State.created_at = 1
    /\ State.last_update = now
    /\ now > 1

\* C13: setInterventionLevel(n) throws for every n outside 1..3, and then the
\* persisted state and the state history are as they were.
C13_InvalidLevelRejected ==
    [][(/\ ret'.op = "setInterventionLevel"
        /\ now' = now
        /\ (ret'.level < 1 \/ ret'.level > 3)) =>
            /\ ret'.threw
            /\ stateFile' = stateFile
            /\ history' = history]_vars

\* C13, witness: setInterventionLevel(4) has thrown on a state at level 2
\* with one history entry.
C13_RejectedAtLevelTwo ==
    /\ ret.op = "setInterventionLevel"
    /\ ret.threw
    /\ ret.level = 4
    /\ State.intervention_level = 2
    /\ Len(history) = 1

\* C14: getState() never throws, and on storage that is absent or cannot be
\* parsed it returns the defaults: intervention_level 1, expansion_lock
\* false, focus_mode neutral, no active_constraint.
C14_DefaultsOnBadStorage ==
    [][ret'.op = "getState" =>
          /\ ~ret'.threw
          /\ stateFile.status = "ok" => ret'.state = stateFile.data
          /\ stateFile.status \in {"absent", "corrupt"} =>
                /\ ret'.state.intervention_level = 1
                /\ ret'.state.expansion_lock = FALSE
                /\ ret'.state.focus_mode = "neutral"
                /\ ret'.state.active_constraint = Null]_vars

\* C14, witness: the state file was written locked at level 2 and then
\* damaged; getState has returned level 1 and no lock.
C14_ReadDamaged ==
    /\ ret.op = "getState"
    /\ stateFile.status = "corrupt"
    /\ stateFile.data.intervention_level = 2
    /\ stateFile.data.expansion_lock
    /\ ret.state.intervention_level = 1
    /\ ~ret.state.expansion_lock

\* C15: resetState() leaves the persisted state at the defaults, with
\* created_at taken at the reset.
C15_ResetToDefaults ==
    [][(ret'.op = "resetState" /\ now' = now) =>
          LET after == getState(stateFile')
          IN /\ stateFile'.status = "ok"
             /\ after.intervention_level = 1
             /\ after.expansion_lock = FALSE
             /\ after.active_constraint = Null
             /\ after.focus_mode = "neutral"
             /\ after.current_goal = Null
             /\ after.streak_days = 0
             /\ after.created_at = now]_vars

\* C15, witness: a state created on day 1, with a goal and level 2 in its
\* history, was reset later; it is at the defaults with the later created_at.
C15_ResetLater ==
    /\ ret.op = "resetState"
    /\ now > 1
    /\ \E i \in 1..Len(history) :
          /\ history[i].state.created_at = 1
          /\ history[i].state.intervention_level = 2
          /\ history[i].state.current_goal = "ship v1"
    /\ State.created_at = now
    /\ State.intervention_level = 1
    /\ State.current_goal = Null

MutationOps == UpdateOps \cup {"resetState"}

\* C16: every mutation of the state (updateState, setInterventionLevel,
\* lockExpansion, unlockExpansion, setCurrentGoal, setFocusMode, resetState)
\* appends exactly one history entry, the snapshot of the state it persisted.
C16_OneEntryPerMutation ==
    [][(ret'.op \in MutationOps /\ ~ret'.threw /\ now' = now) =>
          \E k \in 0..Len(history) :
              history' = Append(SubSeq(history, k + 1, Len(history)),
                                [timestamp |-> now, state |-> getState(stateFile')])]_vars

\* The records the analysis of the last 7 days reads, in date order.
WindowRecords == getRecentTimelines(timelines, now, AnalysisDays)

IsLow(record) == record.energy_state = "low"

\* The length of the run of low records that ends at the last record.
TrailingLow(records) ==
    CHOOSE k \in 0..Len(records) :
        /\ \A i \in (Len(records) - k + 1)..Len(records) : IsLow(records[i])
        /\ k < Len(records) => ~IsLow(records[Len(records) - k])

\* The length of the longest run of low records.
LongestLow(records) ==
    CHOOSE k \in 0..Len(records) :
        /\ \E i \in 0..(Len(records) - k) : \A j \in (i + 1)..(i + k) : IsLow(records[j])
        /\ \A i \in 0..(Len(records) - k - 1) :
              \E j \in (i + 1)..(i + k + 1) : ~IsLow(records[j])

\* C17: the reported scattered_streak is the length of the run of low records
\* that ends at the last record of the window, 0 when the last record is not
\* low.
C17_StreakEndsAtLast ==
    ret.op = "analyzeRecentData" =>
        /\ ret.analysis.scattered_streak = TrailingLow(WindowRecords)
        /\ (WindowRecords # <<>> /\ ~IsLow(WindowRecords[Len(WindowRecords)])) =>
              ret.analysis.scattered_streak = 0

\* C17, witness: a window with a run of 3 low records in it and a shorter run
\* of 1 at its end was analysed: the streak is 1.
C17_ShorterRunAtEnd ==
    /\ ret.op = "analyzeRecentData"
    /\ LongestLow(WindowRecords) = 3
    /\ TrailingLow(WindowRecords) = 1
    /\ ret.analysis.scattered_streak = 1

EventsOfType(interventions, type) ==
    {i \in 1..Len(interventions) : interventions[i].type = type}

\* The events of the rule are n, each with the rule's action and level.
EmitsOf(interventions, type, n) ==
    /\ Cardinality(EventsOfType(interventions, type)) = n
    /\ \A i \in EventsOfType(interventions, type) :
          /\ interventions[i].action = INTERVENTION_RULES[type].action
          /\ interventions[i].level = INTERVENTION_RULES[type].level
    /\ \A i \in 1..Len(interventions) :
          interventions[i].action = INTERVENTION_RULES[type].action =>
              i \in EventsOfType(interventions, type)

\* C18: checkIntervention emits exactly one warn_scattered event at level 1
\* when scattered_streak >= 3 and none when it is below 3; in the control
\* loop, a window whose last 3 records are all low gets that event.
C18_WarnScattered ==
    /\ ret.op = "checkIntervention" =>
          EmitsOf(ret.interventions, "scattered_streak",
                  IF ret.analysisResults.scattered_streak >= 3 THEN 1 ELSE 0)
    /\ ret.op = "generateStartupReport" =>
          EmitsOf(ret.interventions, "scattered_streak",
                  IF /\ Len(WindowRecords) >= 3
                     /\ \A i \in (Len(WindowRecords) - 2)..Len(WindowRecords) :
                           IsLow(WindowRecords[i])
                  THEN 1 ELSE 0)

\* C18, witness: the control loop ran on a window that ends in exactly 3 low
\* records, and its warn_scattered event was executed.
C18_ThreeLowAtEnd ==
    /\ ret.op = "generateStartupReport"
    /\ Len(WindowRecords) > 3
    /\ TrailingLow(WindowRecords) = 3
    /\ Len(ret.executed) = 1
    /\ ret.executed[1].action = "warn_scattered"
    /\ ret.executed[1].level = 1

\* The number of window records of the most frequent main_topic.
TopTopicCount(records) ==
    LET count(topic) == Cardinality({i \in 1..Len(records) : records[i].main_topic = topic})
        counts == {count(topic) : topic \in MainTopics}
    IN CHOOSE n \in counts : \A m \in counts : m <= n

RECURSIVE Recorded(_)
Recorded(dir) ==
    IF dir = <<>> THEN <<>> ELSE Head(dir).mistakes \o Recorded(Tail(dir))

\* C20: after k recordings of one (mistake, type) pair with addMistake, the
\* mistake registry holds an entry of that type with occurrences = k.
C20_OccurrencesCount ==
    \A mistake \in Mistakes, type \in MistakeTypes :
        LET k == Len(Recorded(timelines))
        IN (/\ k >= 1
            /\ \A i \in 1..k : Recorded(timelines)[i] = [mistake |-> mistake, type |-> type]) =>
               \E i \in 1..Len(errors) :
                   /\ errors[i].type = type
                   /\ errors[i].occurrences = k

\* C21: an unfinished_limit event is emitted only when more than 5 items are
\* unfinished; with exactly 5 there is none.  Taken on registries whose
\* entries are all open, where the entries are the unfinished items.
C21_MoreThanFive ==
    (/\ ret.op = "checkIntervention"
     /\ OpenCount(unresolved) = Len(unresolved)) =>
        /\ EventsOfType(ret.interventions, "unfinished_limit") # {} => Len(unresolved) > 5
        /\ Len(unresolved) = 5 => EventsOfType(ret.interventions, "unfinished_limit") = {}

\* The step leaves the state, the history and the log alone when it is a call
\* of checkUnlockCondition.
UnlockCheckWritesNothing ==
    ret'.op = "checkUnlockCondition" =>
        /\ stateFile' = stateFile
        /\ history' = history
        /\ log' = log

\* The step takes expansion_lock from true to false.
Unlocks == getState(stateFile).expansion_lock /\ ~getState(stateFile').expansion_lock

KnownActions == {"lock_expansion", "force_counter_strategy", "degrade_level", "warn_scattered"}

UnknownSkipped(event, before, after) ==
    event.action \notin KnownActions =>
        /\ WasSkipped(event, before, after)
        /\ after.st = before.st

\* Every event of the run is in executed or in skipped, and the run returned.
EveryEventReported ==
    ret'.op \in RunOps =>
        /\ ~ret'.threw
        /\ Len(ret'.executed) + Len(ret'.skipped) = Len(ret'.interventions)

\* C23: an event with an action other than the four known ones is reported
\* skipped with a reason and leaves the state unchanged; executeIntervention
\* does not throw, and the events after it are processed.
C23_UnknownActionSkipped == [][EveryEvent(UnknownSkipped) /\ EveryEventReported]_vars

\* C23, witness: a run of an event with an unknown action and then an
\* expansion_limit event has skipped the first and executed the second.
C23_SkippedThenLocked ==
    /\ ret.op = "executeIntervention"
    /\ Len(ret.interventions) = 2
    /\ ret.interventions[1].action = "notify"
    /\ Len(ret.skipped) = 1
    /\ ret.skipped[1].action = "notify"
    /\ ret.skipped[1].reason = "unknown action"
    /\ Len(ret.executed) = 1
    /\ ret.executed[1].type = "expansion_limit"
    /\ State.expansion_lock
    /\ State.intervention_level = 2

\* With a log that cannot be written the event leaves the log as it was, and
\* its state, executed and skipped are those it leaves with a writable log.
KeptDespiteLogFailure(event, before, after) ==
    ~before.writable =>
        LET written == executeOne([before EXCEPT !.writable = TRUE], event, now)
        IN /\ after.log = before.log
           /\ after.st = written.st
           /\ after.executed = written.executed
           /\ after.skipped = written.skipped
           /\ (event.action = "lock_expansion" /\ event.level \in 1..3) =>
                 /\ LockedBy(event, after)
                 /\ LevelOf(after) = event.level
                 /\ WasExecuted(event, before, after)
           /\ event.action \in Advisory => WasExecuted(event, before, after)

\* C24: when the append to the intervention log fails, the state mutation of
\* the event is kept, the event is still reported executed, and the events
\* after it are processed.
C24_LogFailureKeepsState == [][EveryEvent(KeptDespiteLogFailure) /\ EveryEventReported]_vars

\* C24, witness: a run of an expansion_limit and a scattered_streak event
\* with a log that cannot be written has executed both, locked at level 2,
\* and left the log empty.
C24_LockedUnlogged ==
    /\ ~logWritable
    /\ ret.op \in RunOps
    /\ Len(ret.executed) = 2
    /\ ret.executed[1].type = "expansion_limit"
    /\ ret.executed[2].type = "scattered_streak"
    /\ ret.skipped = <<>>
    /\ State.expansion_lock
    /\ State.intervention_level = 2
    /\ log = <<>>

\* The fields of the state other than the two timestamps.
PlainFields == DOMAIN DEFAULT_STATE \ {"last_update", "created_at"}

\* C25: updateState in two concurrent processes is an unprotected
\* read-modify-write.  A process writes the state it read with its own
\* updates on it, whatever was written since it read; and it writes the
\* history it read with its own entry on it, whatever was written since.
C25_LastWriteWins ==
    [][\A p \in Procs :
          /\ (procs[p].pc = "loaded" /\ procs'[p].pc = "saved") =>
                \A f \in PlainFields :
                    getState(stateFile')[f] =
                        IF f \in DOMAIN procs[p].updates
                        THEN procs[p].updates[f]
                        ELSE procs[p].read[f]
          /\ (procs[p].pc = "historyLoaded" /\ procs'[p].pc = "done") =>
                /\ Len(history') <= Len(procs[p].history) + 1
                /\ history'[Len(history')].state = procs[p].state]_vars

\* C25, witness: both processes read the state and the history before either
\* wrote; process 1 set the goal and process 2 the level, and both have
\* returned: the goal of process 1 is lost and the history has one entry for
\* the two updates.
C25_LostUpdate ==
    /\ procs[1].pc = "done"
    /\ procs[2].pc = "done"
    /\ procs[1].updates = [current_goal |-> "ship v1"]
    /\ procs[2].updates = [intervention_level |-> 2]
    /\ procs[1].state.current_goal = "ship v1"
    /\ State.intervention_level = 2
    /\ State.current_goal = Null
    /\ Len(history) = 1
    /\ procs[1].history = <<>>
    /\ procs[2].history = <<>>

\* The fields of the state that govern.
GovernanceFields ==
    {"focus_mode", "expansion_lock", "active_constraint", "intervention_level", "current_goal"}

\* The control loop again on the same analysis results, from where the run
\* that has just returned left the files.
Rerun ==
    executeIntervention(Disk, log, logWritable,
                        checkIntervention(State, errors, unresolved, ret.analysisResults),
                        now)

\* C26: re-running the control loop with the same metrics and registries
\* leaves focus_mode, expansion_lock, active_constraint, intervention_level
\* and current_goal as the first run left them, for every metrics input.
C26_RerunIdempotent ==
    ret.op = "checkThenExecute" =>
        \A f \in GovernanceFields : getState(Rerun.st.stateFile)[f] = State[f]

C28_CanExpand ==
    [][(ret'.op = "canExpand" /\ now' = now) =>
          /\ State.expansion_lock =>
                /\ ~ret'.result.allowed
                /\ ret'.result.reason = State.active_constraint
          /\ State.intervention_level >= 3 => ~ret'.result.allowed
          /\ ret'.result.allowed <=>
                (~State.expansion_lock /\ State.intervention_level < 3)
          /\ ret'.result.intervention_level = State.intervention_level
          /\ UNCHANGED <<stateFile, history, log, errors, unresolved, timelines>>]_vars

\* C28, witness: canExpand refused at level 3 with the lock off.
C28_RefusedUnlocked ==
    /\ ret.op = "canExpand"
    /\ ~ret.result.allowed
    /\ ret.result.reason = HighLevelReason
    /\ ret.result.intervention_level = 3
    /\ ~State.expansion_lock
    /\ stateFile.status = "ok"

\* The number of window records on a topic, and the place of the first.
TopicFrequency(records, topic) ==
    Cardinality({i \in 1..Len(records) : records[i].main_topic = topic})

FirstEncounter(records, topic) ==
    CHOOSE i \in 1..Len(records) :
        /\ records[i].main_topic = topic
        /\ \A j \in 1..(i - 1) : records[j].main_topic # topic

WindowTopics(records) == {records[i].main_topic : i \in 1..Len(records)} \ {Null}

\* C29: high_frequency_topics holds at most 5 entries, each a topic of the
\* window with its frequency, ranked by descending frequency, with ties
\* between equal counts in the order the topics were first encountered in the
\* window.
C29_TopTopics ==
    ret.op = "analyzeRecentData" =>
        LET top == ret.analysis.high_frequency_topics
            records == WindowRecords
        IN /\ Len(top) <= 5
           /\ Len(top) <= Cardinality(WindowTopics(records))
           /\ Cardinality(WindowTopics(records)) <= 5 =>
                 Len(top) = Cardinality(WindowTopics(records))
           /\ \A i \in 1..Len(top) :
                 /\ top[i].topic \in WindowTopics(records)
                 /\ top[i].count = TopicFrequency(records, top[i].topic)
           /\ \A i, j \in 1..Len(top) :
                 i < j =>
                    /\ top[i].count >= top[j].count
                    /\ top[i].count = top[j].count =>
                          FirstEncounter(records, top[i].topic)
                              < FirstEncounter(records, top[j].topic)

\* No file of the timeline directory was modified within the last 7 days.
NoneInWindow == \A i \in 1..Len(timelines) : timelines[i].last_updated <= now - AnalysisDays

\* C30: for an empty window and empty registries analyzeRecentData returns a
\* snapshot with every count zero and every list empty; it raises no error
\* and modifies no record, registry, state or log, whatever the window.
C30_EmptyWindow ==
    [][(ret'.op = "analyzeRecentData" /\ now' = now) =>
          /\ ~ret'.threw
          /\ UNCHANGED <<stateFile, history, log, errors, unresolved, timelines>>
          /\ (NoneInWindow /\ errors = <<>> /\ unresolved = <<>>) =>
                /\ ret'.analysis.days_analyzed = 0
                /\ ret'.analysis.total_mistakes = 0
                /\ ret'.analysis.energy_distribution = [high |-> 0, neutral |-> 0, low |-> 0]
                /\ ret'.analysis.high_frequency_topics = <<>>
                /\ ret'.analysis.repeated_errors = <<>>
                /\ ret'.analysis.repeated_mistakes = <<>>
                /\ ret'.analysis.new_projects_streak = 0
                /\ ret'.analysis.scattered_streak = 0
                /\ ret'.analysis.high_level_days = 0
                /\ ret'.analysis.unfinished_count = 0]_vars

\* C30, witness: the directory holds seven records on topics, all last
\* written a week ago or more, the registries are empty, and the snapshot
\* counts no day.
C30_StaleDirectory ==
    /\ ret.op = "analyzeRecentData"
    /\ Len(timelines) = MaxWindow
    /\ \E i \in 1..Len(timelines) : timelines[i].main_topic # Null
    /\ NoneInWindow
    /\ errors = <<>>
    /\ unresolved = <<>>
    /\ ret.analysis.days_analyzed = 0
    /\ ret.analysis.high_frequency_topics = <<>>

IsPrefix(short, long) ==
    /\ Len(short) <= Len(long)
    /\ SubSeq(long, 1, Len(short)) = short

\* C31: the intervention log is append-only: the log before a run of
\* executeIntervention is a prefix of the log after it, so no entry is
\* changed, reordered or removed.
C31_LogAppendOnly == [][IsPrefix(log, log')]_vars

\* C31, witness: a run of one event has added its entry behind the entry of
\* an earlier run of another event.
C31_SecondRunAppended ==
    /\ ret.op = "executeIntervention"
    /\ Len(ret.interventions) = 1
    /\ Len(log) = 2
    /\ log[2].action = ret.interventions[1].action
    /\ log[1].action # log[2].action

SkippedHadNoEffect(event, before, after) ==
    Len(after.skipped) > Len(before.skipped) =>
        /\ StateOf(after).expansion_lock = StateOf(before).expansion_lock
        /\ StateOf(after).active_constraint = StateOf(before).active_constraint
        /\ StateOf(after).intervention_level = StateOf(before).intervention_level

\* C33: an event that executeIntervention reports as skipped has left
\* expansion_lock, active_constraint and intervention_level as they were
\* before it was processed, a lock_expansion event with a level outside 1..3
\* included.
C33_SkippedNoEffect == [][EveryEvent(SkippedHadNoEffect)]_vars

LockEscalates(event, before, after) ==
    (event.action = "lock_expansion" /\ LevelOf(before) \in 1..3) =>
        LevelOf(after) >= LevelOf(before)

\* C34: executing a lock_expansion event only escalates: from every state
\* with a level of 1, 2 or 3, intervention_level after the event is greater
\* than or equal to intervention_level before it.
C34_LockOnlyEscalates == [][EveryEvent(LockEscalates)]_vars

OneEntryPerTopic(file) ==
    \A i, j \in 1..Len(file) : file[i].topic = file[j].topic => i = j

\* C37: after any sequence of addUnfinished and resolveUnresolved calls the
\* unresolved registry has at most one entry per topic; no entry is removed
\* or moved, and a resolved entry stays resolved, also when addUnfinished is
\* called again for its topic.
C37_RegistryEntries ==
    [][/\ OneEntryPerTopic(unresolved')
       /\ Len(unresolved') >= Len(unresolved)
       /\ \A i \in 1..Len(unresolved) :
             /\ unresolved'[i].topic = unresolved[i].topic
             /\ unresolved[i].status = "resolved" => unresolved'[i].status = "resolved"]_vars

\* C37, witness: addUnfinished has been called for a topic whose entry is
\* resolved, and the registry still has that one entry for it, resolved.
C37_AddedAgainResolved ==
    /\ ret.op = "addUnfinished"
    /\ Len(unresolved) = 2
    /\ unresolved[1].topic = ret.thread
    /\ unresolved[1].status = "resolved"
    /\ unresolved[2].status = "open"

NotBackToOne(event, before, after) ==
    LevelOf(before) \in {2, 3} => LevelOf(after) # 1

\* C35: with control-loop runs only, once intervention_level is 2 or 3 it is
\* never 1 again, after no event of a later run and after no call that
\* changes the records or the registries.
C35_NeverBackToOne ==
    [][/\ State.intervention_level \in {2, 3} => State'.intervention_level # 1
       /\ EveryEvent(NotBackToOne)]_vars

\* C35, witness: a control-loop run on a state at level 3 has executed an
\* expansion_limit event, and the level is 2.
C35_FromThreeToTwo ==
    /\ ret.op = "generateStartupReport"
    /\ Len(ret.executed) = 1
    /\ ret.executed[1].type = "expansion_limit"
    /\ Len(history) = 2
    /\ history[1].state.intervention_level = 3
    /\ State.intervention_level = 2

\* The messages the control loop locks expansion with.
LoopLockMessages ==
    {INTERVENTION_RULES.expansion_limit.message, INTERVENTION_RULES.unfinished_limit.message}

\* C36: after unlockExpansion has returned, canExpand reports allowed = true,
\* from every state in which the lock was set by the control loop, a lock of
\* an unfinished_limit event at level 3 included.
C36_UnlockAllowsExpansion ==
    [][(/\ ret'.op = "unlockExpansion"
        /\ ~ret'.threw
        /\ now' = now
        /\ State.expansion_lock
        /\ State.active_constraint \in LoopLockMessages) =>
          canExpand(stateFile').allowed]_vars

\* C38: after any sequence of addMistake calls the mistake registry holds at
\* most one entry per type: no two entries share the same type.
C38_OneEntryPerType ==
    \A i, j \in 1..Len(errors) : errors[i].type = errors[j].type => i = j

\* C39: the state shown in the startup report (intervention level, expansion
\* lock, active constraint and the answer of canExpand) is the persisted state
\* at the end of the generateStartupReport run that made the report.
C39_ReportShowsFinalState ==
    ret.op = "generateStartupReport" =>
        /\ ret.status.state.intervention_level = State.intervention_level
        /\ ret.status.state.expansion_lock = State.expansion_lock
        /\ ret.status.state.active_constraint = State.active_constraint
        /\ ret.status.canExpand = canExpand(stateFile)

\* C40: the memory index holds at most one entry per id after any
\* interleaving of add calls, two calls for one id that both start before
\* either embedding request completes included.
C40_OneEntryPerId ==
    \A i, j \in 1..Len(indexData) : indexData[i].id = indexData[j].id => i = j

(***************************************************************************)
(* Specifications.                                                         *)
(***************************************************************************)
Fresh ==
    /\ now = 1
    /\ stateFile = [status |-> "absent", data |-> DEFAULT_STATE]
    /\ history = <<>>
    /\ log = <<>>
    /\ timelines = <<>>
    /\ logWritable = TRUE
    /\ indexData = <<>>
    /\ procs = IdleProcs
    /\ ret = Returned("start")

Init ==
    /\ Fresh
    /\ errors = <<>>
    /\ unresolved = <<>>

\* The state manager, called in any order.
Next ==
    \/ UpdateState
    \/ SetFocusMode
    \/ SetInterventionLevel
    \/ LockExpansion
    \/ UnlockExpansion
    \/ SetCurrentGoal
    \/ ResetState

Spec == Init /\ [][Next]_vars

\* Updates of the state over time.
NextHistory ==
    \/ SetCurrentGoal
    \/ SetInterventionLevel
    \/ UnlockExpansion
    \/ ResetState
    \/ Tick

SpecHistory == Init /\ [][NextHistory]_vars

\* The executor on any list of events and the control loop, a month after
\* the state was last written by one updateState call.
InitExec ==
    /\ now = 1 + HistoryDays + 1
    /\ \E updates \in Updates :
          LET st == updateState(Store([status |-> "absent", data |-> DEFAULT_STATE], <<>>),
                                updates, 1)
          IN /\ stateFile = st.stateFile
             /\ history = st.history
             /\ ret = [op |-> "updateState", threw |-> FALSE, updates |-> updates]
    /\ log = <<>>
    /\ errors = <<>>
    /\ unresolved \in {<<>>, OpenRegistry(MaxUnresolved)}
    /\ timelines \in {<<>>, FullWindow(now)}
    /\ logWritable = TRUE
    /\ indexData = <<>>
    /\ procs = IdleProcs

NextExec ==
    \/ ExecuteIntervention
    \/ GenerateStartupReport

SpecExec == InitExec /\ [][NextExec]_vars

\* Rule evaluation and the unlock check over the unresolved registry.
InitUnresolved ==
    /\ Fresh
    /\ errors = <<>>
    /\ unresolved \in UnresolvedRegistries

NextUnresolved ==
    \/ ResolveUnresolved
    \/ LockExpansion
    \/ CheckIntervention
    \/ CheckUnlockCondition

SpecUnresolved == InitUnresolved /\ [][NextUnresolved]_vars

\* Rule evaluation over the mistake registry, after one setInterventionLevel
\* call.
InitErrors ==
    /\ now = 1
    /\ \E level \in 1..3 :
          LET st == setInterventionLevel(
                        Store([status |-> "absent", data |-> DEFAULT_STATE], <<>>), level, 1)
          IN /\ stateFile = st.stateFile
             /\ history = st.history
             /\ ret = [op |-> "setInterventionLevel", threw |-> FALSE, level |-> level]
    /\ log = <<>>
    /\ errors \in ErrorRegistries
    /\ unresolved = <<>>
    /\ timelines = <<>>
    /\ logWritable = TRUE
    /\ indexData = <<>>
    /\ procs = IdleProcs

NextErrors == CheckIntervention

SpecErrors == InitErrors /\ [][NextErrors]_vars

\* The state manager over time, from storage that is absent or was written
\* once.
NextUpdate ==
    \/ UpdateState
    \/ ResetState
    \/ Tick

SpecUpdate == Init /\ [][NextUpdate]_vars

\* Analysis and the control loop over the daily records of a week.
InitWindow ==
    /\ now = MaxWindow
    /\ stateFile = [status |-> "absent", data |-> DEFAULT_STATE]
    /\ history = <<>>
    /\ log = <<>>
    /\ errors = <<>>
    /\ unresolved = <<>>
    /\ timelines \in Timelines(now)
    /\ logWritable = TRUE
    /\ indexData = <<>>
    /\ procs = IdleProcs
    /\ ret = Returned("start")

NextWindow ==
    \/ AnalyzeRecentData
    \/ CheckIntervention
    \/ GenerateStartupReport

SpecWindow == InitWindow /\ [][NextWindow]_vars

\* Mistakes recorded over time.
NextMistakes ==
    \/ AddMistake
    \/ Tick

SpecMistakes == Init /\ [][NextMistakes]_vars

\* The state manager on storage that gets damaged or removed.
NextStorage ==
    \/ SetInterventionLevel
    \/ LockExpansion
    \/ GetState
    \/ CanExpand
    \/ DamageStateFile
    \/ RemoveStateFile

SpecStorage == Init /\ [][NextStorage]_vars

\* The unlock check next to the calls that write the lock, and the control
\* loop.
InitUnlock ==
    /\ Fresh
    /\ errors = <<>>
    /\ unresolved \in {<<>>, OpenRegistry(MaxUnresolved)}

NextUnlock ==
    \/ CheckUnlockCondition
    \/ LockExpansion
    \/ UnlockExpansion
    \/ UpdateState
    \/ ResetState
    \/ GenerateStartupReport

SpecUnlock == InitUnlock /\ [][NextUnlock]_vars

\* The executor and the control loop with an intervention log that can or
\* cannot be written, on a state set to level 3 a month before.
InitLog ==
    /\ now = 1 + HistoryDays + 1
    /\ LET st == setInterventionLevel(
                     Store([status |-> "absent", data |-> DEFAULT_STATE], <<>>), 3, 1)
       IN /\ stateFile = st.stateFile
          /\ history = st.history
    /\ ret = [op |-> "setInterventionLevel", threw |-> FALSE, level |-> 3]
    /\ log = <<>>
    /\ errors = <<>>
    /\ unresolved = <<>>
    /\ timelines \in {<<>>, FullWindow(now)}
    /\ logWritable \in BOOLEAN
    /\ indexData = <<>>
    /\ procs = IdleProcs

SpecLog == InitLog /\ [][NextExec]_vars

\* Two processes that each call updateState once on a new installation.
InitRace ==
    /\ Fresh
    /\ errors = <<>>
    /\ unresolved = <<>>

NextRace ==
    \/ \E p \in Procs : ProcLoadState(p)
    \/ \E p \in Procs : ProcSaveState(p)
    \/ \E p \in Procs : ProcLoadHistory(p)
    \/ \E p \in Procs : ProcSaveHistory(p)

SpecRace == InitRace /\ [][NextRace]_vars

\* The control loop on any analysis results and as generateStartupReport
\* wires it, next to the call that sets the level.
InitLoop ==
    /\ now = MaxWindow
    /\ stateFile = [status |-> "absent", data |-> DEFAULT_STATE]
    /\ history = <<>>
    /\ log = <<>>
    /\ errors = <<>>
    /\ unresolved \in {<<>>, OpenRegistry(MaxUnresolved)}
    /\ timelines = QuietWindow(now)
    /\ logWritable = TRUE
    /\ indexData = <<>>
    /\ procs = IdleProcs
    /\ ret = Returned("start")

NextLoop ==
    \/ CheckThenExecute
    \/ GenerateStartupReport
    \/ CheckIntervention
    \/ SetInterventionLevel

SpecLoop == InitLoop /\ [][NextLoop]_vars

\* The analysis of a week of records on several topics.
InitTopics ==
    /\ now = MaxWindow
    /\ stateFile = [status |-> "absent", data |-> DEFAULT_STATE]
    /\ history = <<>>
    /\ log = <<>>
    /\ errors = <<>>
    /\ unresolved = <<>>
    /\ timelines \in TopicWindows(now)
    /\ logWritable = TRUE
    /\ indexData = <<>>
    /\ procs = IdleProcs
    /\ ret = Returned("start")

NextTopics == AnalyzeRecentData

SpecTopics == InitTopics /\ [][NextTopics]_vars

\* The analysis of a directory last written today, six days ago or a week
\* ago, with empty or filled registries.
InitStale ==
    /\ \E written \in {MaxWindow} :
          /\ now \in {written, written + AnalysisDays - 1, written + AnalysisDays}
          /\ timelines \in Directories(written)
    /\ stateFile = [status |-> "absent", data |-> DEFAULT_STATE]
    /\ history = <<>>
    /\ log = <<>>
    /\ errors \in {<<>>, <<SampleError>>}
    /\ unresolved \in {<<>>, OpenRegistry(1)}
    /\ logWritable = TRUE
    /\ indexData = <<>>
    /\ procs = IdleProcs
    /\ ret = Returned("start")

NextStale == AnalyzeRecentData

SpecStale == InitStale /\ [][NextStale]_vars

\* Rule evaluation called again and again, over time, on a state written once
\* and on empty or filled registries.
InitPure ==
    /\ now = 1
    /\ \E level \in {1, 3} :
          LET st == setInterventionLevel(
                        Store([status |-> "absent", data |-> DEFAULT_STATE], <<>>), level, 1)
          IN /\ stateFile = st.stateFile
             /\ history = st.history
             /\ ret = [op |-> "setInterventionLevel", threw |-> FALSE, level |-> level]
    /\ log = <<>>
    /\ errors \in {<<>>, <<SampleError>>}
    /\ unresolved \in {<<>>, OpenRegistry(MaxUnresolved)}
    /\ timelines = <<>>
    /\ logWritable = TRUE
    /\ indexData = <<>>
    /\ procs = IdleProcs

NextPure ==
    \/ CheckIntervention
    \/ Tick

SpecPure == InitPure /\ [][NextPure]_vars

\* Threads opened and resolved on a new installation.
InitThreads ==
    /\ Fresh
    /\ errors = <<>>
    /\ unresolved = <<>>

NextThreads ==
    \/ AddUnfinished
    \/ ResolveUnresolved

SpecThreads == InitThreads /\ [][NextThreads]_vars

\* Control-loop runs only, between calls that open and resolve threads, over
\* a week on one topic or no records, on a state put at its level a month
\* before.
InitWired ==
    /\ now = 1 + HistoryDays + 1
    /\ \E level \in 1..3 :
          LET st == setInterventionLevel(
                        Store([status |-> "absent", data |-> DEFAULT_STATE], <<>>), level, 1)
          IN /\ stateFile = st.stateFile
             /\ history = st.history
             /\ ret = [op |-> "setInterventionLevel", threw |-> FALSE, level |-> level]
    /\ log = <<>>
    /\ errors = <<>>
    /\ unresolved \in {<<>>, OpenRegistry(MaxUnresolved)}
    /\ timelines \in {<<>>, TopicWindow(now)}
    /\ logWritable = TRUE
    /\ indexData = <<>>
    /\ procs = IdleProcs

NextWired ==
    \/ GenerateStartupReport
    \/ AddUnfinished
    \/ ResolveUnresolved

SpecWired == InitWired /\ [][NextWired]_vars

\* Two add calls in flight at a time on an empty memory index.
InitMemory ==
    /\ Fresh
    /\ errors = <<>>
    /\ unresolved = <<>>

NextMemory ==
    \/ \E p \in Procs : AddStart(p)
    \/ \E p \in Procs : AddResolve(p)
    \/ \E p \in Procs : AddReject(p)

SpecMemory == InitMemory /\ [][NextMemory]_vars

====
